---- MODULE Spec2Model ----
(***************************************************************************)
(* Model of src/pipeline.py: the `duolingo` pipeline declaration and the   *)
(* command-line entry point that uploads the input image, builds the task, *)
(* runs it and stops it.                                                   *)
(*                                                                         *)
(* A Collection is a record [cols, rows]: cols is the ordered sequence of  *)
(* column names, rows a sequence of functions from column name to a value  *)
(* (all values are strings).                                               *)
(***************************************************************************)
EXTENDS Integers, Sequences, FiniteSets, TLC

VARIABLES
    args,       \* per run: the parsed command line [file, lang]
    openai_key, \* the OPENAI_KEY environment variable ("None" when unset)
    pc,         \* per run: position in __main__
    ev,         \* per run: set of events that happened in the process
    io,         \* per run: set of kinds of external I/O performed
    started,    \* per run: indices of the stages begun, in order
    running,    \* per run: set of stages in flight
    colls,      \* per run: the Collection namespace (name -> Collection)
    failedAt,   \* per run: index of the stage that raised, 0 if none
    exit,       \* per run: process exit status, -1 while running
    bucket,     \* the storage bucket: key -> [content, writer]
    outKeys,    \* per run: keys written by save_files_auto
    lab,        \* operator workbench: inputs and outputs of the pure operators
    configs     \* per run: the configuration mapping each invocation was given

vars == <<args, openai_key, pc, ev, io, started, running, colls, failedAt,
          exit, bucket, outKeys, lab, configs>>

pipevars == <<args, openai_key, pc, ev, io, started, running, colls, failedAt,
              exit, bucket, outKeys, configs>>

----------------------------------------------------------------------------
(* Bounds *)

\* largest number of objects the detection adapter reports for one image
MaxObjects == 2

\* largest number of rows of a workbench Collection
MaxRows == 2

\* largest number of characters of a classes file
MaxFileLen == 4

----------------------------------------------------------------------------
(* Sequences and Collections *)

Range(s) == {s[i] : i \in 1..Len(s)}

ColSet(c) == Range(c.cols)

RowCount(c) == Len(c.rows)

\* the values a Collection holds under one column
Values(c, col) == {c.rows[i][col] : i \in 1..Len(c.rows)}

\* pd.DataFrame({col: [v], ...}) with one row
OneRow(cols, row) == [cols |-> cols, rows |-> <<row>>]

----------------------------------------------------------------------------
(* Column-shaping operators, as invoked by the pipeline *)

\* locs with config {'column': col}: keep only that column
locs_fails(c, cfg) == cfg.column \notin ColSet(c)

locs(c, cfg) ==
    [cols |-> <<cfg.column>>,
     rows |-> [i \in 1..Len(c.rows) |->
                  [k \in {cfg.column} |-> c.rows[i][k]]]]

\* rename_column with config {old: new}
rename_column_fails(c, cfg) == cfg.old \notin ColSet(c)

rename_column(c, cfg) ==
    [cols |-> [j \in 1..Len(c.cols) |->
                  IF c.cols[j] = cfg.old THEN cfg.new ELSE c.cols[j]],
     rows |-> [i \in 1..Len(c.rows) |->
                  [k \in (ColSet(c) \ {cfg.old}) \cup {cfg.new} |->
                      IF k = cfg.new THEN c.rows[i][cfg.old]
                                     ELSE c.rows[i][k]]]]

\* a negative position counts from the end: -1 is after the last column
InsertAt(c, position) ==
    IF position < 0 THEN Len(c.cols) + 1 + position ELSE position

add_column_fails(c, cfg) ==
    \/ cfg.column_name \in ColSet(c)
    \/ InsertAt(c, cfg.position) < 0
    \/ InsertAt(c, cfg.position) > Len(c.cols)

add_column(c, cfg) ==
    LET p == InsertAt(c, cfg.position) IN
    [cols |-> SubSeq(c.cols, 1, p) \o <<cfg.column_name>>
                 \o SubSeq(c.cols, p + 1, Len(c.cols)),
     rows |-> [i \in 1..Len(c.rows) |->
                  [k \in ColSet(c) \cup {cfg.column_name} |->
                      IF k = cfg.column_name THEN cfg.value
                                             ELSE c.rows[i][k]]]]

----------------------------------------------------------------------------
(* merge_2 *)

\* rows l and r agree on every shared column
Agree(l, r, shared) == \A k \in shared : l[k] = r[k]

JoinRow(l, r) ==
    [k \in DOMAIN l \cup DOMAIN r |-> IF k \in DOMAIN l THEN l[k] ELSE r[k]]

\* all pairs <<i, j>> in row-major order: every left row with every right row
RECURSIVE Pairs(_, _, _, _)
Pairs(i, j, n, m) ==
    IF i > n \/ m = 0 THEN <<>>
    ELSE IF j > m THEN Pairs(i + 1, 1, n, m)
    ELSE <<(<<i, j>>)>> \o Pairs(i, j + 1, n, m)

\* a cross join rejects a column name present on both sides; a key join
\* needs at least one shared column to match on
merge_2_fails(left, right, cfg) ==
    LET shared == ColSet(left) \cap ColSet(right) IN
    IF cfg.how = "cross" THEN shared # {} ELSE shared = {}

merge_2(left, right, cfg) ==
    LET shared == ColSet(left) \cap ColSet(right)
        all    == Pairs(1, 1, Len(left.rows), Len(right.rows))
        kept   == IF cfg.how = "cross" THEN all
                  ELSE SelectSeq(all, LAMBDA p :
                         Agree(left.rows[p[1]], right.rows[p[2]], shared))
    IN [cols |-> left.cols \o SelectSeq(right.cols, LAMBDA k : k \notin shared),
        rows |-> [n \in 1..Len(kept) |->
                     JoinRow(left.rows[kept[n][1]], right.rows[kept[n][2]])]]

----------------------------------------------------------------------------
(* The command line and the environment *)

Runs == {1, 2}

\* local image files, as path components; two of them share a base name
Files == {<<"a", "cat.jpg">>, <<"b", "cat.jpg">>, <<"a", "dog.jpg">>}

\* what each local file holds: distinct files hold distinct bytes
LocalContent(path) ==
    CASE path = <<"a", "cat.jpg">> -> "bytes:/a/cat.jpg"
      [] path = <<"b", "cat.jpg">> -> "bytes:/b/cat.jpg"
      [] OTHER                     -> "bytes:/a/dog.jpg"

\* os.path.basename: the last component of the path
basename(path) == path[Len(path)]

\* the class map read from the --classes file
classes == [id \in {"0"} |-> "cat"]

\* the text of the --prompt file
prompt == "Describe the {objects}"

\* the run identifier the platform gives the task of process r
RunId(r) == "run" \o ToString(r)

\* the path as the user typed it
PathString(path) == "/" \o path[1] \o "/" \o path[2]

\* the whole path handed to the pipeline instead of its base name
PipelineFileArgPath(r) == PathString(args[r].file)

\* the file argument __main__ passes to duolingo
PipelineFileArg(r) == basename(args[r].file)

\* the key __main__ uploads the local file under
UploadKey(r) == basename(args[r].file)

----------------------------------------------------------------------------
(* The pipeline declaration: root collections, configurations, stages *)

files_collection(file) ==
    OneRow(<<"filename", "s3key">>,
           [k \in {"filename", "s3key"} |-> file])

\* the language collection built with the code listed twice
language_collection_twice(target_language) ==
    [cols |-> <<"to_language">>,
     rows |-> <<[k \in {"to_language"} |-> target_language],
                [k \in {"to_language"} |-> target_language]>>]

language_collection(target_language) ==
    OneRow(<<"to_language">>, [k \in {"to_language"} |-> target_language])

RootCollections == {"images", "language"}

storage_config ==
    [aws_access_key_id     |-> "S3_ACCESS_KEY",
     aws_secret_access_key |-> "S3_SECRET_KEY",
     bucket_name           |-> "S3_BUCKET",
     endpoint_url          |-> "S3_ENDPOINT"]

\* the projection naming the class-id column instead of the class names
locs_cls_names_config_ids == [column |-> "cls_ids"]

locs_cls_names_config == [column |-> "cls_names"]

\* the rename map written the wrong way round
rename_column_config_swapped == [old |-> "objects", new |-> "cls_names"]

rename_column_config_typo == [old |-> "cls_names", new |-> "object"]

rename_column_config == [old |-> "cls_names", new |-> "objects"]

langchain_config == [prompt_template |-> prompt, api_key |-> openai_key]

\* a position further from the end than the Collection has columns
add_column_config_far ==
    [column_name |-> "from_language", value |-> "en", position |-> -4]

add_column_config ==
    [column_name |-> "from_language", value |-> "en", position |-> -1]

for_translation_merge_inner == [how |-> "inner"]

for_translation_merge_config == [how |-> "cross"]

\* the second projection keeping the language column instead of the text
locs_translation_config_lang == [column |-> "to_language"]

locs_translation_config == [column |-> "translation"]

translated_merge_config == [how |-> "cross"]

save_append_run_id_off == FALSE

save_append_run_id == TRUE

save_config ==
    [append_run_id         |-> save_append_run_id,
     aws_access_key_id     |-> storage_config.aws_access_key_id,
     aws_secret_access_key |-> storage_config.aws_secret_access_key,
     bucket_name           |-> storage_config.bucket_name,
     endpoint_url          |-> storage_config.endpoint_url]

\* append_run_id written into storage_config itself, which every invocation
\* that was given storage_config then shares
DeclaredConfigsInPlace ==
    [storage_config  |-> save_config,
     download_files  |-> save_config,
     save_files_auto |-> save_config]

\* the configuration mappings the declaration holds and hands to the storage
\* stages: download_files gets storage_config itself, save_files_auto a new
\* mapping built from it
DeclaredConfigs ==
    [storage_config  |-> storage_config,
     download_files  |-> storage_config,
     save_files_auto |-> save_config]

\* the stage invocations of duolingo in evaluation order: the operator, the
\* Collections it consumes, the Collection it produces ("" for the terminal
\* stage) and whether it performs external I/O
DeclaredStages ==
    << [op |-> "download_files",  ins |-> <<"images">>,   out |-> "paths",
        adapter |-> TRUE,  kind |-> "download"],
       [op |-> "detect",          ins |-> <<"paths">>,    out |-> "detected",
        adapter |-> TRUE,  kind |-> "detection"],
       [op |-> "locs",            ins |-> <<"detected">>, out |-> "cls_names",
        adapter |-> FALSE, kind |-> "none"],
       [op |-> "rename_column",   ins |-> <<"cls_names">>, out |-> "objects",
        adapter |-> FALSE, kind |-> "none"],
       [op |-> "process_langchain_request", ins |-> <<"objects">>,
        out |-> "descriptions", adapter |-> TRUE, kind |-> "generation"],
       [op |-> "add_column",      ins |-> <<"descriptions">>,
        out |-> "with_from_language", adapter |-> FALSE, kind |-> "none"],
       [op |-> "merge_2",         ins |-> <<"with_from_language", "language">>,
        out |-> "for_translation", adapter |-> FALSE, kind |-> "none"],
       [op |-> "translate_texts", ins |-> <<"for_translation">>,
        out |-> "translate_result", adapter |-> TRUE, kind |-> "translation"],
       [op |-> "locs",            ins |-> <<"translate_result">>,
        out |-> "translation", adapter |-> FALSE, kind |-> "none"],
       [op |-> "merge_2",         ins |-> <<"translation", "language">>,
        out |-> "translated", adapter |-> FALSE, kind |-> "none"],
       [op |-> "text_to_speech",  ins |-> <<"translated">>, out |-> "speech",
        adapter |-> TRUE,  kind |-> "synthesis"],
       [op |-> "save_files_auto", ins |-> <<"speech">>,   out |-> "",
        adapter |-> TRUE,  kind |-> "upload"] >>

\* text_to_speech handed the `language` collection instead of `translated`
StagesSpeechFromLanguage ==
    [DeclaredStages EXCEPT ![11].ins = <<"language">>]

\* the graph the task executes
Stages == DeclaredStages

NStages == Len(Stages)

StageIds == 1..NStages

\* stage numbers by role
SDownload  == 1
SDetect    == 2
SLocsCls   == 3
SRename    == 4
SGenerate  == 5
SAddColumn == 6
SMerge1    == 7
STranslate == 8
SLocsTr    == 9
SMerge2    == 10
SSpeech    == 11
SSave      == 12

\* every stage consumes only root collections or outputs of earlier stages
GraphValid ==
    \A k \in StageIds :
        Range(Stages[k].ins) \subseteq
            RootCollections \cup {Stages[j].out : j \in 1..(k - 1)}

\* every required option of every invocation has a value
ConfigComplete == langchain_config.api_key # "None"

----------------------------------------------------------------------------
(* External adapters: what each returns for a given input *)

\* the text the generation service returns for one object
Generate(template, object) ==
    IF template = "Describe the {objects}" /\ object = "cat" THEN "A cat."
    ELSE "A thing."

\* the translation service
Translate(text, from, to) ==
    IF text = "A cat." /\ from = "en" /\ to = "es" THEN "Un gato."
    ELSE "Una cosa."

\* the name of the audio artifact synthesised for row i
AudioName(i) == "audio_" \o ToString(i) \o ".mp3"

\* download_files: every row gains the local copy of the object under s3key
download_files_fails(c, store) ==
    \E i \in 1..Len(c.rows) : c.rows[i]["s3key"] \notin DOMAIN store

download_files(c, store) ==
    [cols |-> c.cols \o <<"path">>,
     rows |-> [i \in 1..Len(c.rows) |->
                  [k \in ColSet(c) \cup {"path"} |->
                      IF k = "path" THEN store[c.rows[i]["s3key"]].content
                                    ELSE c.rows[i][k]]]]

\* detect: one row per detected object; ids is the sequence of class ids found
detect(c, cfg, ids) ==
    [cols |-> <<"filename", "cls_ids", "cls_names">>,
     rows |-> [i \in 1..Len(ids) |->
                  [k \in {"filename", "cls_ids", "cls_names"} |->
                      CASE k = "filename" -> c.rows[1]["filename"]
                        [] k = "cls_ids"  -> ids[i]
                        [] OTHER          -> cfg[ids[i]]]]]

\* the sequences of class ids a detection may report
Detections(cfg) ==
    UNION {[1..n -> DOMAIN cfg] : n \in 0..MaxObjects}

\* process_langchain_request: the template variable is the column `objects`
process_langchain_request_fails(c, cfg) == "objects" \notin ColSet(c)

process_langchain_request(c, cfg) ==
    [cols |-> c.cols \o <<"text">>,
     rows |-> [i \in 1..Len(c.rows) |->
                  [k \in ColSet(c) \cup {"text"} |->
                      IF k = "text"
                      THEN Generate(cfg.prompt_template, c.rows[i]["objects"])
                      ELSE c.rows[i][k]]]]

translate_texts_fails(c) ==
    ~ ({"text", "from_language", "to_language"} \subseteq ColSet(c))

translate_texts(c) ==
    [cols |-> c.cols \o <<"translation">>,
     rows |-> [i \in 1..Len(c.rows) |->
                  [k \in ColSet(c) \cup {"translation"} |->
                      IF k = "translation"
                      THEN Translate(c.rows[i]["text"],
                                     c.rows[i]["from_language"],
                                     c.rows[i]["to_language"])
                      ELSE c.rows[i][k]]]]

text_to_speech(c) ==
    [cols |-> c.cols \o <<"speech">>,
     rows |-> [i \in 1..Len(c.rows) |->
                  [k \in ColSet(c) \cup {"speech"} |->
                      IF k = "speech" THEN AudioName(i) ELSE c.rows[i][k]]]]

\* the remote key save_files_auto stores an artifact under
SaveKey(name, cfg, run_id) ==
    IF cfg.append_run_id THEN name \o "_" \o run_id ELSE name

SavedKeys(c, cfg, run_id) ==
    {SaveKey(c.rows[i]["speech"], cfg, run_id) : i \in 1..Len(c.rows)}

\* the bucket after save_files_auto of run r wrote every artifact of c
save_files_auto(c, cfg, r, store) ==
    LET keys == SavedKeys(c, cfg, RunId(r)) IN
    [k \in DOMAIN store \cup keys |->
        IF k \in keys THEN [content |-> "audio:" \o RunId(r), writer |-> r]
                      ELSE store[k]]

----------------------------------------------------------------------------
(* Initial state *)

NoCollections == [n \in {} |-> 0]

NoConfigs == [n \in {} |-> 0]

EmptyBucket == [k \in {} |-> 0]

LabIdle == [phase |-> "idle"]

PipeInit ==
    /\ args \in {a \in [Runs -> [file : Files, lang : {"es"}]] :
                    a[1].file = <<"a", "cat.jpg">>}
    /\ openai_key \in {"sk-key", "None"}
    /\ pc = [r \in Runs |-> "upload"]
    /\ ev = [r \in Runs |-> {}]
    /\ io = [r \in Runs |-> {}]
    /\ started = [r \in Runs |-> <<>>]
    /\ running = [r \in Runs |-> {}]
    /\ colls = [r \in Runs |-> NoCollections]
    /\ failedAt = [r \in Runs |-> 0]
    /\ exit = [r \in Runs |-> -1]
    /\ bucket = EmptyBucket
    /\ outKeys = [r \in Runs |-> {}]
    /\ configs = [r \in Runs |-> NoConfigs]

Init == PipeInit /\ lab = LabIdle

----------------------------------------------------------------------------
(* __main__ *)

\* an uncaught exception ends the process: nothing after the raising
\* statement runs and the interpreter exits with status 1
Uncaught(r, event) ==
    /\ pc' = [pc EXCEPT ![r] = "done"]
    /\ ev' = [ev EXCEPT ![r] = @ \cup {event}]
    /\ exit' = [exit EXCEPT ![r] = 1]

\* client.upload_file(args.file, storage_bucket, base_name)
Upload(r) ==
    /\ pc[r] = "upload"
    /\ bucket' = [k \in DOMAIN bucket \cup {UploadKey(r)} |->
                    IF k = UploadKey(r)
                    THEN [content |-> LocalContent(args[r].file), writer |-> r]
                    ELSE bucket[k]]
    /\ io' = [io EXCEPT ![r] = @ \cup {"storage_write"}]
    /\ ev' = [ev EXCEPT ![r] = @ \cup {"uploaded"}]
    /\ pc' = [pc EXCEPT ![r] = "duolingo"]
    /\ UNCHANGED <<args, openai_key, started, running, colls, failedAt, exit,
                   outKeys, lab, configs>>

\* client.upload_file raises
UploadFail(r) ==
    /\ pc[r] = "upload"
    /\ Uncaught(r, "upload_failed")
    /\ UNCHANGED <<args, openai_key, io, started, running, colls, failedAt,
                   bucket, outKeys, lab, configs>>

\* task = duolingo(base_name, classes, prompt, args.lang): the declaration is
\* traced into a graph; the root collections enter the namespace
Build(r) ==
    /\ pc[r] = "duolingo"
    /\ GraphValid /\ ConfigComplete
    /\ colls' = [colls EXCEPT ![r] =
                   ("images" :> files_collection(PipelineFileArg(r)))
                   @@ ("language" :> language_collection(args[r].lang))]
    /\ ev' = [ev EXCEPT ![r] = @ \cup {"built"}]
    /\ configs' = [configs EXCEPT ![r] = DeclaredConfigs]
    /\ pc' = [pc EXCEPT ![r] = "task_run"]
    /\ UNCHANGED <<args, openai_key, io, started, running, failedAt, exit,
                   bucket, outKeys, lab>>

\* duolingo(...) raises a build-time error
BuildFail(r) ==
    /\ pc[r] = "duolingo"
    /\ ~ (GraphValid /\ ConfigComplete)
    /\ Uncaught(r, "build_failed")
    /\ UNCHANGED <<args, openai_key, io, started, running, colls, failedAt,
                   bucket, outKeys, lab, configs>>

\* task.run(with_logs=True, profile_mode='all') is entered
TaskRun(r) ==
    /\ pc[r] = "task_run"
    /\ pc' = [pc EXCEPT ![r] = "running"]
    /\ ev' = [ev EXCEPT ![r] = @ \cup {"run_started"}]
    /\ UNCHANGED <<args, openai_key, io, started, running, colls, failedAt,
                   exit, bucket, outKeys, lab, configs>>

\* the stages of run r that have begun and are no longer in flight
Finished(r) == Range(started[r]) \ running[r]

\* the first stage invoked while the declaration is still being evaluated
BeginStageEager(r, k) ==
    /\ pc[r] \in {"duolingo", "running"}
    /\ k \notin Range(started[r])
    /\ pc[r] = "running" => Range(Stages[k].ins) \subseteq DOMAIN colls[r]
    /\ pc[r] = "duolingo" => k = 1
    /\ started' = [started EXCEPT ![r] = Append(@, k)]
    /\ running' = [running EXCEPT ![r] = @ \cup {k}]
    /\ io' = [io EXCEPT ![r] =
                IF Stages[k].adapter THEN @ \cup {Stages[k].kind} ELSE @]
    /\ UNCHANGED <<args, openai_key, pc, ev, colls, failedAt, exit, bucket,
                   outKeys, lab, configs>>

\* a stage is invoked once every Collection it consumes exists
BeginStage(r, k) ==
    /\ pc[r] = "running"
    /\ k \notin Range(started[r])
    /\ Range(Stages[k].ins) \subseteq DOMAIN colls[r]
    /\ started' = [started EXCEPT ![r] = Append(@, k)]
    /\ running' = [running EXCEPT ![r] = @ \cup {k}]
    /\ io' = [io EXCEPT ![r] =
                IF Stages[k].adapter THEN @ \cup {Stages[k].kind} ELSE @]
    /\ UNCHANGED <<args, openai_key, pc, ev, colls, failedAt, exit, bucket,
                   outKeys, lab, configs>>

\* stage k in flight either raises (the error leaves task.run uncaught) or
\* binds its output in the namespace of the run
EndStage(r, k, fails, out) ==
    /\ pc[r] = "running"
    /\ k \in running[r]
    /\ IF fails
       THEN /\ Uncaught(r, "shape_error")
            /\ failedAt' = [failedAt EXCEPT ![r] = k]
            /\ UNCHANGED <<running, colls>>
       ELSE /\ running' = [running EXCEPT ![r] = @ \ {k}]
            /\ colls' = [colls EXCEPT ![r] =
                           IF Stages[k].out = "" THEN @
                           ELSE (Stages[k].out :> out) @@ @]
            /\ UNCHANGED <<pc, ev, failedAt, exit>>
    /\ UNCHANGED <<args, openai_key, io, started, lab, configs>>

\* the error of an adapter call swallowed around task.run
AdapterErrorSwallowed(r) ==
    \E k \in running[r] :
        /\ pc[r] = "running"
        /\ Stages[k].adapter
        /\ pc' = [pc EXCEPT ![r] = "stop"]
        /\ ev' = [ev EXCEPT ![r] = @ \cup {"adapter_error"}]
        /\ failedAt' = [failedAt EXCEPT ![r] = k]
        /\ UNCHANGED <<args, openai_key, io, started, running, colls, exit,
                       bucket, outKeys, lab, configs>>

\* the failure path deleting what the run had written to storage
AdapterErrorRollback(r) ==
    \E k \in running[r] :
        /\ pc[r] = "running"
        /\ Stages[k].adapter
        /\ Uncaught(r, "adapter_error")
        /\ failedAt' = [failedAt EXCEPT ![r] = k]
        /\ bucket' = [key \in {x \in DOMAIN bucket : bucket[x].writer # r} |->
                        bucket[key]]
        /\ UNCHANGED <<args, openai_key, io, started, running, colls,
                       outKeys, lab, configs>>

\* an adapter call in flight raises (authentication, missing object,
\* malformed response)
AdapterError(r) ==
    \E k \in running[r] :
        /\ pc[r] = "running"
        /\ Stages[k].adapter
        /\ Uncaught(r, "adapter_error")
        /\ failedAt' = [failedAt EXCEPT ![r] = k]
        /\ UNCHANGED <<args, openai_key, io, started, running, colls, bucket,
                       outKeys, lab, configs>>

In(r, k, n) == colls[r][Stages[k].ins[n]]

DownloadFiles(r) ==
    /\ SDownload \in running[r]
    /\ EndStage(r, SDownload,
                download_files_fails(In(r, SDownload, 1), bucket),
                download_files(In(r, SDownload, 1), bucket))
    /\ UNCHANGED <<bucket, outKeys>>

Detect(r) ==
    /\ SDetect \in running[r]
    /\ \E ids \in Detections(classes) :
          EndStage(r, SDetect, FALSE, detect(In(r, SDetect, 1), classes, ids))
    /\ UNCHANGED <<bucket, outKeys>>

LocsClsNames(r) ==
    /\ SLocsCls \in running[r]
    /\ EndStage(r, SLocsCls,
                locs_fails(In(r, SLocsCls, 1), locs_cls_names_config),
                locs(In(r, SLocsCls, 1), locs_cls_names_config))
    /\ UNCHANGED <<bucket, outKeys>>

RenameColumn(r) ==
    /\ SRename \in running[r]
    /\ EndStage(r, SRename,
                rename_column_fails(In(r, SRename, 1), rename_column_config),
                rename_column(In(r, SRename, 1), rename_column_config))
    /\ UNCHANGED <<bucket, outKeys>>

ProcessLangchainRequest(r) ==
    /\ SGenerate \in running[r]
    /\ EndStage(r, SGenerate,
                process_langchain_request_fails(In(r, SGenerate, 1),
                                                langchain_config),
                process_langchain_request(In(r, SGenerate, 1),
                                          langchain_config))
    /\ UNCHANGED <<bucket, outKeys>>

AddColumn(r) ==
    /\ SAddColumn \in running[r]
    /\ EndStage(r, SAddColumn,
                add_column_fails(In(r, SAddColumn, 1), add_column_config),
                add_column(In(r, SAddColumn, 1), add_column_config))
    /\ UNCHANGED <<bucket, outKeys>>

MergeForTranslation(r) ==
    /\ SMerge1 \in running[r]
    /\ EndStage(r, SMerge1,
                merge_2_fails(In(r, SMerge1, 1), In(r, SMerge1, 2),
                              for_translation_merge_config),
                merge_2(In(r, SMerge1, 1), In(r, SMerge1, 2),
                        for_translation_merge_config))
    /\ UNCHANGED <<bucket, outKeys>>

TranslateTexts(r) ==
    /\ STranslate \in running[r]
    /\ EndStage(r, STranslate,
                translate_texts_fails(In(r, STranslate, 1)),
                translate_texts(In(r, STranslate, 1)))
    /\ UNCHANGED <<bucket, outKeys>>

LocsTranslation(r) ==
    /\ SLocsTr \in running[r]
    /\ EndStage(r, SLocsTr,
                locs_fails(In(r, SLocsTr, 1), locs_translation_config),
                locs(In(r, SLocsTr, 1), locs_translation_config))
    /\ UNCHANGED <<bucket, outKeys>>

MergeTranslated(r) ==
    /\ SMerge2 \in running[r]
    /\ EndStage(r, SMerge2,
                merge_2_fails(In(r, SMerge2, 1), In(r, SMerge2, 2),
                              translated_merge_config),
                merge_2(In(r, SMerge2, 1), In(r, SMerge2, 2),
                        translated_merge_config))
    /\ UNCHANGED <<bucket, outKeys>>

TextToSpeech(r) ==
    /\ SSpeech \in running[r]
    /\ EndStage(r, SSpeech, FALSE, text_to_speech(In(r, SSpeech, 1)))
    /\ UNCHANGED <<bucket, outKeys>>

SaveFilesAuto(r) ==
    /\ SSave \in running[r]
    /\ EndStage(r, SSave, FALSE, In(r, SSave, 1))
    /\ bucket' = save_files_auto(In(r, SSave, 1),
                                 configs[r]["save_files_auto"], r, bucket)
    /\ outKeys' = [outKeys EXCEPT ![r] =
                     @ \cup SavedKeys(In(r, SSave, 1),
                                     configs[r]["save_files_auto"], RunId(r))]

\* save_files_auto raises after it stored the first n artifacts: what it
\* stored stays in the bucket
SaveFilesAutoPartial(r) ==
    /\ pc[r] = "running"
    /\ SSave \in running[r]
    /\ \E n \in 1..(RowCount(In(r, SSave, 1)) - 1) :
          LET part == [cols |-> In(r, SSave, 1).cols,
                       rows |-> SubSeq(In(r, SSave, 1).rows, 1, n)]
          IN /\ bucket' = save_files_auto(part, configs[r]["save_files_auto"],
                                          r, bucket)
             /\ outKeys' = [outKeys EXCEPT ![r] =
                              @ \cup SavedKeys(part,
                                               configs[r]["save_files_auto"],
                                               RunId(r))]
    /\ Uncaught(r, "adapter_error")
    /\ failedAt' = [failedAt EXCEPT ![r] = SSave]
    /\ UNCHANGED <<args, openai_key, io, started, running, colls, lab,
                   configs>>

\* task.run returns once every stage has run
RunReturn(r) ==
    /\ pc[r] = "running"
    /\ Finished(r) = StageIds
    /\ pc' = [pc EXCEPT ![r] = "stop"]
    /\ ev' = [ev EXCEPT ![r] = @ \cup {"run_returned"}]
    /\ UNCHANGED <<args, openai_key, io, started, running, colls, failedAt,
                   exit, bucket, outKeys, lab, configs>>

\* task.stop(), then the interpreter exits normally
Stop(r) ==
    /\ pc[r] = "stop"
    /\ pc' = [pc EXCEPT ![r] = "done"]
    /\ ev' = [ev EXCEPT ![r] = @ \cup {"stop_called"}]
    /\ exit' = [exit EXCEPT ![r] = 0]
    /\ UNCHANGED <<args, openai_key, io, started, running, colls, failedAt,
                   bucket, outKeys, lab, configs>>

\* the run is signalled for cancellation: the interrupt is raised in the main
\* thread wherever it is, and nothing in __main__ catches it
Cancel(r) ==
    /\ pc[r] \in {"task_run", "running", "stop"}
    /\ pc' = [pc EXCEPT ![r] = "done"]
    /\ ev' = [ev EXCEPT ![r] =
                @ \cup {"cancelled"}
                  \cup (IF SGenerate \notin Range(started[r])
                        THEN {"cancelled_before_generation"} ELSE {})]
    /\ exit' = [exit EXCEPT ![r] = 130]
    /\ UNCHANGED <<args, openai_key, io, started, running, colls, failedAt,
                   bucket, outKeys, lab, configs>>

Next ==
    \E r \in Runs :
        \/ Upload(r)
        \/ UploadFail(r)
        \/ Build(r)
        \/ BuildFail(r)
        \/ TaskRun(r)
        \/ \E k \in StageIds : BeginStage(r, k)
        \/ AdapterError(r)
        \/ DownloadFiles(r)
        \/ Detect(r)
        \/ LocsClsNames(r)
        \/ RenameColumn(r)
        \/ ProcessLangchainRequest(r)
        \/ AddColumn(r)
        \/ MergeForTranslation(r)
        \/ TranslateTexts(r)
        \/ LocsTranslation(r)
        \/ MergeTranslated(r)
        \/ TextToSpeech(r)
        \/ SaveFilesAuto(r)
        \/ SaveFilesAutoPartial(r)
        \/ RunReturn(r)
        \/ Stop(r)
        \/ Cancel(r)

Spec == Init /\ [][Next]_vars

----------------------------------------------------------------------------
(* Operator workbench: the pipeline's operator invocations applied to       *)
(* arbitrary bounded Collections                                            *)

LabColumns == {"text", "to_language", "translation"}

LabValues == {"en", "es"}

\* column sequences of one or two distinct columns, in one fixed order each
LabColSeqs ==
    {<<a>> : a \in LabColumns}
    \cup {<<"text", "to_language">>, <<"text", "translation">>,
          <<"translation", "to_language">>}

LabCollections ==
    UNION {UNION {[cols : {cs}, rows : [1..n -> [Range(cs) -> LabValues]]] :
                     n \in 0..MaxRows} : cs \in LabColSeqs}

LabInit ==
    /\ args = [r \in Runs |-> [file |-> <<"a", "cat.jpg">>, lang |-> "es"]]
    /\ openai_key = "sk-key"
    /\ pc = [r \in Runs |-> "upload"]
    /\ ev = [r \in Runs |-> {}]
    /\ io = [r \in Runs |-> {}]
    /\ started = [r \in Runs |-> <<>>]
    /\ running = [r \in Runs |-> {}]
    /\ colls = [r \in Runs |-> NoCollections]
    /\ failedAt = [r \in Runs |-> 0]
    /\ exit = [r \in Runs |-> -1]
    /\ bucket = EmptyBucket
    /\ outKeys = [r \in Runs |-> {}]
    /\ configs = [r \in Runs |-> NoConfigs]
    /\ \E l \in LabCollections, r \in LabCollections :
          lab = [phase |-> "input", left |-> l, right |-> r]

\* apply one merge_2 invocation to the workbench inputs
LabMerge(phase, cfg) ==
    /\ lab.phase = "input"
    /\ lab' = [phase  |-> phase,
               left   |-> lab.left,
               right  |-> lab.right,
               failed |-> merge_2_fails(lab.left, lab.right, cfg),
               out    |-> merge_2(lab.left, lab.right, cfg)]
    /\ UNCHANGED pipevars

LabMergeForTranslation ==
    LabMerge("for_translation", for_translation_merge_config)

LabMergeTranslated ==
    LabMerge("translated", translated_merge_config)

LabNext ==
    \/ LabMergeForTranslation
    \/ LabMergeTranslated

SpecOps == LabInit /\ [][LabNext]_vars

----------------------------------------------------------------------------
(* Operator workbench for the column-shaping invocations (one input)        *)

ShapeColSeqs ==
    {<<a>> : a \in {"cls_names", "text", "translation", "from_language"}}
    \cup {<<"cls_ids", "cls_names">>, <<"objects", "text">>,
          <<"text", "translation">>, <<"text", "from_language">>}

ShapeCollections ==
    UNION {UNION {[cols : {cs}, rows : [1..n -> [Range(cs) -> LabValues]]] :
                     n \in 0..MaxRows} : cs \in ShapeColSeqs}

ShapeInit ==
    /\ args = [r \in Runs |-> [file |-> <<"a", "cat.jpg">>, lang |-> "es"]]
    /\ openai_key = "sk-key"
    /\ pc = [r \in Runs |-> "upload"]
    /\ ev = [r \in Runs |-> {}]
    /\ io = [r \in Runs |-> {}]
    /\ started = [r \in Runs |-> <<>>]
    /\ running = [r \in Runs |-> {}]
    /\ colls = [r \in Runs |-> NoCollections]
    /\ failedAt = [r \in Runs |-> 0]
    /\ exit = [r \in Runs |-> -1]
    /\ bucket = EmptyBucket
    /\ outKeys = [r \in Runs |-> {}]
    /\ configs = [r \in Runs |-> NoConfigs]
    /\ \E c \in ShapeCollections : lab = [phase |-> "shape_input", input |-> c]

\* rename_column(..., config={'cls_names': 'objects'})
LabRenameColumn ==
    /\ lab.phase = "shape_input"
    /\ lab' = [phase  |-> "renamed",
               input  |-> lab.input,
               failed |-> rename_column_fails(lab.input, rename_column_config),
               out    |-> IF rename_column_fails(lab.input, rename_column_config)
                          THEN lab.input
                          ELSE rename_column(lab.input, rename_column_config)]
    /\ UNCHANGED pipevars

\* locs applied to the input and then to its own result
LabLocs(phase, cfg) ==
    /\ lab.phase = "shape_input"
    /\ LET failed == locs_fails(lab.input, cfg)
           once   == IF failed THEN lab.input ELSE locs(lab.input, cfg)
           failed2 == locs_fails(once, cfg)
       IN lab' = [phase        |-> phase,
                  input        |-> lab.input,
                  failed       |-> failed,
                  out          |-> once,
                  again_failed |-> failed2,
                  again        |-> IF failed2 THEN once ELSE locs(once, cfg)]
    /\ UNCHANGED pipevars

LabLocsClsNames == LabLocs("projected_cls_names", locs_cls_names_config)

LabLocsTranslation == LabLocs("projected_translation", locs_translation_config)

\* add_column(..., config={'column_name': 'from_language', 'value': 'en',
\* 'position': -1})
LabAddColumn ==
    /\ lab.phase = "shape_input"
    /\ lab' = [phase  |-> "column_added",
               input  |-> lab.input,
               failed |-> add_column_fails(lab.input, add_column_config),
               out    |-> IF add_column_fails(lab.input, add_column_config)
                          THEN lab.input
                          ELSE add_column(lab.input, add_column_config)]
    /\ UNCHANGED pipevars

ShapeNext ==
    \/ LabRenameColumn
    \/ LabLocsClsNames
    \/ LabLocsTranslation
    \/ LabAddColumn

SpecShape == ShapeInit /\ [][ShapeNext]_vars

----------------------------------------------------------------------------
(* The classes file: open(args.classes).readlines() and the class map       *)

NL == "\n"

FileChars == {"a", "b", NL}

\* the files of at most MaxFileLen characters
ClassesFiles == UNION {[1..n -> FileChars] : n \in 0..MaxFileLen}

\* position of the first line terminator of s, 0 if it has none
RECURSIVE FirstNL(_, _)
FirstNL(s, i) ==
    IF i > Len(s) THEN 0
    ELSE IF s[i] = NL THEN i
    ELSE FirstNL(s, i + 1)

\* readlines(): the lines of the file, each with its terminator; a last line
\* without terminator is a line too
RECURSIVE readlines(_)
readlines(s) ==
    IF s = <<>> THEN <<>>
    ELSE LET n == FirstNL(s, 1) IN
         IF n = 0 THEN <<s>>
         ELSE <<SubSeq(s, 1, n)>> \o readlines(SubSeq(s, n + 1, Len(s)))

\* k[:-1]
DropLast(k) == SubSeq(k, 1, Len(k) - 1)

\* {str(i): k[:-1] for i, k in enumerate(lines)}
ClassMap(lines) ==
    [key \in {ToString(i) : i \in 0..(Len(lines) - 1)} |->
        DropLast(lines[1 + CHOOSE i \in 0..(Len(lines) - 1) : ToString(i) = key])]

ClassesInit ==
    /\ args = [r \in Runs |-> [file |-> <<"a", "cat.jpg">>, lang |-> "es"]]
    /\ openai_key = "sk-key"
    /\ pc = [r \in Runs |-> "upload"]
    /\ ev = [r \in Runs |-> {}]
    /\ io = [r \in Runs |-> {}]
    /\ started = [r \in Runs |-> <<>>]
    /\ running = [r \in Runs |-> {}]
    /\ colls = [r \in Runs |-> NoCollections]
    /\ failedAt = [r \in Runs |-> 0]
    /\ exit = [r \in Runs |-> -1]
    /\ bucket = EmptyBucket
    /\ outKeys = [r \in Runs |-> {}]
    /\ configs = [r \in Runs |-> NoConfigs]
    /\ \E f \in ClassesFiles : lab = [phase |-> "classes_file", content |-> f]

\* classes = {str(i): k[:-1] for i, k in enumerate(open(...).readlines())}
ReadClasses ==
    /\ lab.phase = "classes_file"
    /\ lab' = [phase   |-> "classes_read",
               content |-> lab.content,
               lines   |-> readlines(lab.content),
               classes |-> ClassMap(readlines(lab.content))]
    /\ UNCHANGED pipevars

SpecClasses == ClassesInit /\ [][ReadClasses]_vars

----------------------------------------------------------------------------
(* Claims *)

Done(r) == pc[r] = "done"

Happened(r, e) == e \in ev[r]

StartedSet(r) == Range(started[r])

\* C1: on every exit path of task.run (normal completion or a stage's
\* error), task.stop has been invoked by the time the process ends.
C1_TeardownUnconditional ==
    \A r \in Runs :
        (Done(r) /\ Happened(r, "run_started") /\ ~ Happened(r, "cancelled"))
            => Happened(r, "stop_called")

\* C2: a stage that raises halts the run at that stage: no stage declared
\* after it is ever invoked and the process ends with a non-zero status; a
\* run in which no stage fails ends with status 0.
C2_FirstFailureHalts ==
    \A r \in Runs :
        /\ failedAt[r] # 0 =>
              /\ Done(r)
              /\ exit[r] \notin {-1, 0}
              /\ \A k \in StartedSet(r) : k <= failedAt[r]
        /\ (Done(r) /\ Happened(r, "run_started") /\ failedAt[r] = 0
                /\ ~ Happened(r, "cancelled"))
              => /\ exit[r] = 0
                 /\ StartedSet(r) = StageIds

C2_Witness ==
    \E r \in Runs :
        /\ Done(r)
        /\ failedAt[r] = SGenerate
        /\ exit[r] = 1
        /\ started[r] = <<SDownload, SDetect, SLocsCls, SRename, SGenerate>>

\* C3: every stage that has begun consumes only root collections and outputs
\* of stages that began before it and had completed; at most one stage of a
\* run is in flight at any time.
C3_TopologicalValidity ==
    \A r \in Runs :
        /\ Cardinality(running[r] \ {failedAt[r]}) <= 1
        /\ failedAt[r] # 0 => running[r] = {failedAt[r]}
        /\ \A p \in 1..Len(started[r]) :
              \A n \in Range(Stages[started[r][p]].ins) :
                  \/ n \in RootCollections
                  \/ \E q \in 1..(p - 1) :
                        /\ Stages[started[r][q]].out = n
                        /\ started[r][q] \notin running[r]
                        /\ n \in DOMAIN colls[r]

C3_Witness ==
    \E r \in Runs :
        /\ Len(started[r]) = NStages
        /\ running[r] = {}
        /\ \A p \in 1..NStages : started[r][p] = p

\* C4 (as stated): a CLI invocation that ends in a build-time error has
\* performed no external I/O at all.
C4_NoSideEffects ==
    \A r \in Runs : Happened(r, "build_failed") => io[r] = {}

\* C4 (amended): a CLI invocation that ends in a build-time error has invoked
\* no stage, and the only external I/O it performed is the bootstrap upload
\* of the input file.
C4_NoStageBeforeBuildError ==
    \A r \in Runs :
        Happened(r, "build_failed") =>
            /\ started[r] = <<>>
            /\ io[r] \subseteq {"storage_write"}
            /\ colls[r] = NoCollections
            /\ outKeys[r] = {}

C4_Witness ==
    \E r \in Runs :
        /\ Happened(r, "build_failed")
        /\ Done(r)
        /\ io[r] = {"storage_write"}

\* C5: a run cancelled before the generation stage runs never runs the
\* translation, the synthesis or any later stage, and its teardown
\* (task.stop) is still invoked.
C5_CancelThenTeardown ==
    \A r \in Runs :
        (Done(r) /\ Happened(r, "run_started")
            /\ Happened(r, "cancelled_before_generation"))
        => /\ \A k \in StartedSet(r) : k < SGenerate
           /\ Happened(r, "stop_called")

\* C6: with two concurrent runs on one bucket, the object a run uploaded is
\* never overwritten by the other run, and each run's download_files fetches
\* the object its own invocation uploaded.
C6_RunsAreIsolated ==
    \A r \in Runs :
        (\A o \in Runs \ {r} : args[o].file # args[r].file) =>
        /\ Happened(r, "uploaded") => bucket[UploadKey(r)].writer = r
        /\ "paths" \in DOMAIN colls[r] =>
              \A i \in 1..RowCount(colls[r]["paths"]) :
                  colls[r]["paths"].rows[i]["path"] = LocalContent(args[r].file)

\* C7: two runs never store an output artifact under the same key, and an
\* output artifact in the bucket is the one its own run wrote.
C7_OutputKeysDisjoint ==
    \A r1 \in Runs, r2 \in Runs :
        r1 # r2 =>
            /\ outKeys[r1] \cap outKeys[r2] = {}
            /\ \A k \in outKeys[r1] :
                  /\ k \in DOMAIN bucket
                  /\ bucket[k].writer = r1

C7_Witness ==
    /\ \A r \in Runs : Cardinality(outKeys[r]) >= 1
    /\ \E r \in Runs : Cardinality(outKeys[r]) = MaxObjects


\* C8: at both cross-join merge_2 invocations the output has left-rows times
\* right-rows rows and the union of both sides' columns, for every pair of
\* bounded Collections the merge accepts; it accepts every pair with disjoint
\* column names.
MergeShape(left, right, failed, out) ==
    /\ (ColSet(left) \cap ColSet(right) = {}) => ~ failed
    /\ ~ failed =>
          /\ RowCount(out) = RowCount(left) * RowCount(right)
          /\ ColSet(out) = ColSet(left) \cup ColSet(right)
          /\ Len(out.cols) = Cardinality(ColSet(out))
          /\ \A i \in 1..RowCount(out) : DOMAIN out.rows[i] = ColSet(out)

C8_CrossJoinShape ==
    lab.phase \in {"for_translation", "translated"} =>
        MergeShape(lab.left, lab.right, lab.failed, lab.out)

C8_Witness ==
    /\ lab.phase = "translated"
    /\ ~ lab.failed
    /\ RowCount(lab.left) = MaxRows
    /\ RowCount(lab.right) = MaxRows
    /\ RowCount(lab.out) = MaxRows * MaxRows
    /\ Cardinality(ColSet(lab.out)) = 3

\* C9: for image cat.jpg, class map {'0': 'cat'}, prompt 'Describe the
\* {objects}' and language 'es', when one object is detected the Collections
\* are, in order, {cls_names: cat}, {objects: cat}, {objects: cat, text:
\* 'A cat.'}, then with from_language 'en' and to_language 'es', the
\* translation reduced to {translation: 'Un gato.', to_language: 'es'}, one
\* audio artifact, and one upload under a key suffixed with the run id; no
\* stage raises a shape error on the way.
Scenario(r) ==
    /\ basename(args[r].file) = "cat.jpg"
    /\ classes = [id \in {"0"} |-> "cat"]
    /\ prompt = "Describe the {objects}"
    /\ args[r].lang = "es"
    /\ "detected" \in DOMAIN colls[r]
    /\ RowCount(colls[r]["detected"]) = 1

Holds(r, name, cols, row) ==
    name \in DOMAIN colls[r] =>
        /\ ColSet(colls[r][name]) = cols
        /\ colls[r][name].rows = <<row>>

C9_EndToEnd ==
    \A r \in Runs :
        Scenario(r) =>
            /\ ~ Happened(r, "shape_error")
            /\ Holds(r, "cls_names", {"cls_names"}, [cls_names |-> "cat"])
            /\ Holds(r, "objects", {"objects"}, [objects |-> "cat"])
            /\ Holds(r, "descriptions", {"objects", "text"},
                     [objects |-> "cat", text |-> "A cat."])
            /\ Holds(r, "with_from_language",
                     {"objects", "text", "from_language"},
                     [objects |-> "cat", text |-> "A cat.",
                      from_language |-> "en"])
            /\ Holds(r, "for_translation",
                     {"objects", "text", "from_language", "to_language"},
                     [objects |-> "cat", text |-> "A cat.",
                      from_language |-> "en", to_language |-> "es"])
            /\ Holds(r, "translated", {"translation", "to_language"},
                     [translation |-> "Un gato.", to_language |-> "es"])
            /\ "speech" \in DOMAIN colls[r] =>
                  /\ RowCount(colls[r]["speech"]) = 1
                  /\ Cardinality(Values(colls[r]["speech"], "speech")) = 1
            /\ SSave \in Finished(r) =>
                  /\ outKeys[r] = {"audio_1.mp3_" \o RunId(r)}
                  /\ outKeys[r] \subseteq DOMAIN bucket
            /\ SSave \notin Finished(r) => outKeys[r] = {}

C9_Witness ==
    \E r \in Runs :
        /\ Scenario(r)
        /\ Done(r)
        /\ exit[r] = 0
        /\ outKeys[r] = {"audio_1.mp3_" \o RunId(r)}
        /\ colls[r]["translated"].rows =
              <<[translation |-> "Un gato.", to_language |-> "es"]>>

\* C10: the bootstrap upload under the file's base name completes before the
\* pipeline is built and before any stage runs; the s3key and filename of the
\* single images row are exactly that base name; if the upload fails, no
\* stage runs.
C10_UploadFirst ==
    \A r \in Runs :
        /\ (Happened(r, "built") \/ started[r] # <<>>) =>
              /\ Happened(r, "uploaded")
              /\ basename(args[r].file) \in DOMAIN bucket
        /\ "images" \in DOMAIN colls[r] =>
              /\ RowCount(colls[r]["images"]) = 1
              /\ colls[r]["images"].rows[1]["s3key"] = basename(args[r].file)
              /\ colls[r]["images"].rows[1]["filename"] = basename(args[r].file)
              /\ colls[r]["images"].rows[1]["s3key"] = UploadKey(r)
        /\ Happened(r, "upload_failed") =>
              /\ Done(r)
              /\ started[r] = <<>>
              /\ ~ Happened(r, "built")
              /\ io[r] = {}

C10_Witness ==
    \E r \in Runs :
        /\ basename(args[r].file) = "dog.jpg"
        /\ "paths" \in DOMAIN colls[r]
        /\ colls[r]["paths"].rows[1]["s3key"] = "dog.jpg"
        /\ colls[r]["paths"].rows[1]["path"] = "bytes:/a/dog.jpg"


\* C11: the access key, secret key, bucket name and endpoint URL given to
\* save_files_auto are those given to download_files, and building the upload
\* configuration leaves the storage_config mapping as it was declared.
StorageOptions ==
    {"aws_access_key_id", "aws_secret_access_key", "bucket_name",
     "endpoint_url"}

C11_StorageConfigUniform ==
    \A r \in Runs :
        Happened(r, "built") =>
            /\ \A k \in StorageOptions :
                  /\ configs[r]["save_files_auto"][k]
                        = configs[r]["download_files"][k]
                  /\ configs[r]["download_files"][k] = storage_config[k]
            /\ DOMAIN configs[r]["storage_config"] = StorageOptions
            /\ DOMAIN configs[r]["download_files"] = StorageOptions
            /\ DOMAIN configs[r]["save_files_auto"]
                  = StorageOptions \cup {"append_run_id"}
            /\ configs[r]["save_files_auto"]["append_run_id"] = TRUE

C11_Witness ==
    \E r \in Runs :
        /\ {SDownload, SSave} \subseteq Finished(r)
        /\ outKeys[r] # {}
        /\ DOMAIN configs[r]["storage_config"] = StorageOptions

\* C12: after a run failed at a stage, everything it wrote to storage before
\* the failure (the bootstrap upload, any output artifact already stored) is
\* still in storage.
C12_NoRollback ==
    \A r \in Runs :
        failedAt[r] # 0 =>
            /\ Happened(r, "uploaded")
            /\ UploadKey(r) \in DOMAIN bucket
            /\ outKeys[r] \subseteq DOMAIN bucket
            /\ \A k \in outKeys[r] : bucket[k].writer = r

C12_Witness ==
    \E r \in Runs :
        /\ failedAt[r] = SSave
        /\ Done(r)
        /\ outKeys[r] # {}
        /\ outKeys[r] \subseteq DOMAIN bucket
        /\ UploadKey(r) \in DOMAIN bucket


\* rows i of two Collections hold the same value under every column of cols
SameOn(c, d, cols) ==
    /\ RowCount(c) = RowCount(d)
    /\ \A i \in 1..RowCount(c) : \A k \in cols : c.rows[i][k] = d.rows[i][k]

\* C13: rename_column {cls_names: objects} fails exactly when cls_names is
\* absent; otherwise the result has the same number of rows, the values under
\* objects are the values that were under cls_names, cls_names is no longer a
\* column and every other column is untouched.
C13_RenamePreserves ==
    lab.phase = "renamed" =>
        /\ lab.failed <=> "cls_names" \notin ColSet(lab.input)
        /\ ~ lab.failed =>
              /\ RowCount(lab.out) = RowCount(lab.input)
              /\ Values(lab.out, "objects") = Values(lab.input, "cls_names")
              /\ \A i \in 1..RowCount(lab.out) :
                    lab.out.rows[i]["objects"] = lab.input.rows[i]["cls_names"]
              /\ "cls_names" \notin ColSet(lab.out)
              /\ ColSet(lab.out)
                    = (ColSet(lab.input) \ {"cls_names"}) \cup {"objects"}
              /\ Len(lab.out.cols) = Len(lab.input.cols)
              /\ SameOn(lab.out, lab.input, ColSet(lab.input) \ {"cls_names"})

C13_Witness ==
    /\ lab.phase = "renamed"
    /\ ~ lab.failed
    /\ RowCount(lab.out) = MaxRows
    /\ Cardinality(Values(lab.out, "objects")) = 2
    /\ ColSet(lab.out) = {"cls_ids", "objects"}

\* C14: projecting onto cls_names (or translation) fails exactly when that
\* column is absent; otherwise the result holds only that column, with the
\* input's values, and projecting the result again gives the same Collection.
Projection(col) ==
    /\ lab.failed <=> col \notin ColSet(lab.input)
    /\ ~ lab.failed =>
          /\ lab.out.cols = <<col>>
          /\ \A i \in 1..RowCount(lab.out) : DOMAIN lab.out.rows[i] = {col}
          /\ SameOn(lab.out, lab.input, {col})
          /\ ~ lab.again_failed
          /\ lab.again = lab.out

C14_ProjectionIdempotent ==
    /\ lab.phase = "projected_cls_names" => Projection("cls_names")
    /\ lab.phase = "projected_translation" => Projection("translation")

C14_Witness ==
    /\ lab.phase = "projected_cls_names"
    /\ ~ lab.failed
    /\ Len(lab.input.cols) = 2
    /\ RowCount(lab.input) = MaxRows
    /\ lab.again = lab.out
    /\ lab.out # lab.input

Bound(r, name) == name \in DOMAIN colls[r]

\* C16: at both merge_2 invocations the two sides have no column name in
\* common, so no merge is ever rejected; the Collection joined with language
\* never holds a to_language column, and text_to_speech receives exactly the
\* columns translation and to_language.
C16_NoColumnCollision ==
    \A r \in Runs :
        /\ Bound(r, "with_from_language") =>
              /\ ColSet(colls[r]["with_from_language"])
                    \cap ColSet(colls[r]["language"]) = {}
              /\ "to_language" \notin ColSet(colls[r]["with_from_language"])
        /\ Bound(r, "translation") =>
              /\ ColSet(colls[r]["translation"])
                    \cap ColSet(colls[r]["language"]) = {}
              /\ "to_language" \notin ColSet(colls[r]["translation"])
        /\ Bound(r, "translated") =>
              ColSet(colls[r]["translated"]) = {"translation", "to_language"}
        /\ failedAt[r] \notin {SMerge1, SMerge2}
        /\ SSpeech \in StartedSet(r) => Bound(r, "translated")

C16_Witness ==
    \E r \in Runs :
        /\ SSpeech \in Finished(r)
        /\ RowCount(colls[r]["translated"]) = MaxObjects
        /\ colls[r]["translated"].cols = <<"translation", "to_language">>


\* the Collections of a run that hold one row per detected object
PerObject ==
    {"cls_names", "objects", "descriptions", "with_from_language",
     "for_translation", "translate_result", "translation", "translated",
     "speech"}

\* C18: the language Collection always is the one-row Collection built from
\* the target language, at its creation and at both merges; every Collection
\* from the projection of the detection to speech has as many rows as objects
\* were detected, and a run whose upload completed stored that many
\* artifacts.
C18_RowCountConserved ==
    \A r \in Runs :
        /\ Bound(r, "language") =>
              /\ RowCount(colls[r]["language"]) = 1
              /\ colls[r]["language"].cols = <<"to_language">>
              /\ colls[r]["language"].rows[1]["to_language"] = args[r].lang
        /\ \A n \in PerObject :
              Bound(r, n) => RowCount(colls[r][n]) = RowCount(colls[r]["detected"])
        /\ SSave \in Finished(r) =>
              Cardinality(outKeys[r]) = RowCount(colls[r]["detected"])
        /\ (Done(r) /\ exit[r] = 0) =>
              /\ PerObject \subseteq DOMAIN colls[r]
              /\ SSave \in Finished(r)

C18_Witness ==
    \E r \in Runs :
        /\ Done(r)
        /\ exit[r] = 0
        /\ RowCount(colls[r]["detected"]) = MaxObjects
        /\ RowCount(colls[r]["speech"]) = MaxObjects
        /\ Cardinality(outKeys[r]) = MaxObjects
        /\ \E o \in Runs :
              /\ Done(o)
              /\ exit[o] = 0
              /\ RowCount(colls[o]["detected"]) = 0
              /\ outKeys[o] = {}


\* the text of a line: the line without its terminator, if it has one
LabelText(line) ==
    IF line[Len(line)] = NL THEN SubSeq(line, 1, Len(line) - 1) ELSE line

\* C17: the class map has one entry per line of the classes file, str(i) for
\* line i, and its value is the text of that line with the line terminator
\* removed and nothing else, also for a last line without terminator.
C17_ClassMapLabels ==
    lab.phase = "classes_read" =>
        /\ DOMAIN lab.classes
              = {ToString(i) : i \in 0..(Len(lab.lines) - 1)}
        /\ \A i \in 0..(Len(lab.lines) - 1) :
              lab.classes[ToString(i)] = LabelText(lab.lines[i + 1])

====
